---- MODULE Spec2Model ----
(***************************************************************************)
(* Alert feed of hfFrontend: the AlertProvider component (paginated REST   *)
(* retrieval merged with live STOMP pushes, read acknowledgement, friend   *)
(* request actions) together with the login / logout handlers that drive   *)
(* its isLoggedIn prop.                                                    *)
(*                                                                         *)
(* Granularity.  One action is one task of the browser's event loop: an    *)
(* event handler or the continuation of an await, followed by the React    *)
(* render it schedules and the effects of that render.  Every state update *)
(* of the component is either a constant or a functional update, so        *)
(* applying the updates in call order inside the action is what React      *)
(* does when it renders the batch.  Awaited network calls are requests in  *)
(* flight; their settlement is a separate action.                          *)
(***************************************************************************)
EXTENDS Integers, Sequences, FiniteSets, TLC

\* Bounds of the model.
MaxInputs == 2      \* pushes delivered and calls made (loadMore, readAlerts,
                    \* handleFriendRequest) per page life

\* Program constants.
PageSize == 10      \* size=10 of the alert queries

None == "none"                       \* an unset processedAction
Accepted == "accepted label"         \* '수락 완료'
Rejected == "rejected label"         \* '거절 완료'
Null == "null"                       \* no cached user identity
User == "user"

\* Inputs.
\* How an awaited call ends: with success (resultCode "200", response.ok), with
\* a response that is no success, or with an error (network, unparsable body).
Outcomes == {"ok", "bad", "throw"}
\* The body of a message of the broker: the JSON text of an alert, or not.
Bodies == {"json", "garbage"}
\* Pages the server may answer a query with: <<id of the first alert, number
\* of alerts, isRead of the alerts>>.  A page has consecutive ids.
Pages == {<<1, PageSize, FALSE>>, <<10, PageSize, TRUE>>, <<10, 2, FALSE>>}
FriendAlertIds == {10}               \* alertId arguments of handleFriendRequest
RequestIds == {5}                    \* requestId arguments of handleFriendRequest
ManualReads == {<<10, 99>>}          \* alertIds arguments of a manual readAlerts

VARIABLES
    alerts,        \* useState<Alert[]>: the Feed Store sequence
    hasMore,       \* useState(true)
    page,          \* useState(0): the page cursor
    unreadAlerts,  \* useState<number[]>: ids of the unread alerts
    isOpen,        \* prop: visibility of the feed view
    isLoggedIn,    \* prop, owned by the application shell
    userInfo,      \* localStorage 'userInfo'
    clients,       \* STOMP clients created so far, in creation order
    clientRef,     \* clientRef.current: index into clients, 0 for null
    initialFetch,  \* the page-0 query of fetchInitialAlerts is in flight
    moreReqs,      \* page queries of loadMore in flight
    readReqs,      \* PATCH calls of readAlerts in flight
    friendReqs,    \* POST calls of handleFriendRequest in flight
    logoutReq,     \* the logout call of handleLogout is in flight
    events,        \* friendRequestProcessed events dispatched on window
    nInputs,       \* pushes and calls so far
    nPush,         \* pushes so far
    served,        \* history: the page content each settled loadMore received
    acked,         \* history: the readAlerts calls the server acknowledged
    failed,        \* history: the calls that failed, <<kind, number of the call>>
    toast          \* AlertProvider: the toasts on display, <<>> for toast = null

vars == <<alerts, hasMore, page, unreadAlerts, isOpen, isLoggedIn, userInfo,
          clients, clientRef, initialFetch, moreReqs, readReqs, friendReqs,
          logoutReq, events, nInputs, nPush, served, acked, failed, toast>>

feed == <<alerts, hasMore, page, unreadAlerts>>
conn == <<clients, clientRef>>
session == <<isLoggedIn, userInfo>>
counters == <<nInputs, nPush>>

----------------------------------------------------------------------------
\* Alerts.  org is history: where the entry came from.

MkAlert(id, read, org) ==
    [id |-> id, isRead |-> read, processedAction |-> None, org |-> org]

\* The content of a served page: n alerts with consecutive ids.
ServerPage(first, n, read, org) ==
    [i \in 1..n |-> MkAlert(first + i - 1, read, org)]

\* The id of the n-th alert pushed: newer than the first page of the feed.
PushId(n) == PageSize + n

Ids(s) == [i \in DOMAIN s |-> s[i].id]

IsUnread(a) == ~a.isRead

\* alerts.filter(alert => !alert.isRead).map(alert => alert.id)
UnreadIds(s) == Ids(SelectSeq(s, IsUnread))

Includes(ids, x) == \E i \in DOMAIN ids : ids[i] = x

----------------------------------------------------------------------------
\* State updates of the Feed Store, as the component writes them.

\* setAlerts(data.data.content)
ReplaceAll(prev, content) == content

\* setHasMore(data.data.content.length === 10)
HasMoreAfterInitial(n) == n = PageSize

\* A loadMore that puts the fetched page in front of the sequence.
PrependPage(prev, newAlerts) == newAlerts \o prev

\* setAlerts(prev => [...prev, ...newAlerts])
AppendPage(prev, newAlerts) == prev \o newAlerts

\* if (newAlerts.length < 10) setHasMore(false)
HasMoreAfterLoadMore(cur, n) == IF n < PageSize THEN FALSE ELSE cur

\* the page number loadMore asks for: page + 1
RequestedPage(cur) == cur + 1

\* setPage(prev => prev + 1)
AdvancePage(prev) == prev + 1

\* A push handler that puts the new alert behind the sequence.
RecordIncomingLast(prev, newAlert) == Append(prev, newAlert)

\* setAlerts(prev => [newAlert, ...prev])
RecordIncoming(prev, newAlert) == <<newAlert>> \o prev

\* JSON.parse(message.body): the value the body encodes, <<>> when the body is
\* no JSON text and JSON.parse throws.
JsonParse(body, value) == IF body = "json" THEN <<value>> ELSE <<>>

\* A handler that records an alert for whatever it has received.
AlertsAfterAnyMessage(prev, parsed) ==
    RecordIncoming(prev, IF parsed = <<>> THEN MkAlert(0, FALSE, <<"push", 0>>) ELSE parsed[1])

\* the alerts handler: setAlerts comes after JSON.parse, a throw skips it
AlertsAfterMessage(prev, parsed) ==
    IF parsed = <<>> THEN prev ELSE RecordIncoming(prev, parsed[1])

\* An acknowledgement that marks every alert of the sequence as read.
ApplyReadStateAll(prev, alertIds) ==
    [i \in DOMAIN prev |-> [prev[i] EXCEPT !.isRead = TRUE]]

\* setAlerts(prev => prev.map(alert => alertIds.includes(alert.id) ? {...alert, isRead: true} : alert))
ApplyReadState(prev, alertIds) ==
    [i \in DOMAIN prev |->
        IF Includes(alertIds, prev[i].id) THEN [prev[i] EXCEPT !.isRead = TRUE] ELSE prev[i]]

\* action === 'accept' ? '수락 완료' : '거절 완료'
ActionLabel(action) == IF action = "accept" THEN Accepted ELSE Rejected

\* A handler that labels every alert of the sequence.
ApplyProcessedActionAll(prev, alertId, action) ==
    [i \in DOMAIN prev |-> [prev[i] EXCEPT !.processedAction = ActionLabel(action)]]

\* setAlerts(prev => prev.map(alert => alert.id === alertId ? {...alert, processedAction: ...} : alert))
ApplyProcessedAction(prev, alertId, action) ==
    [i \in DOMAIN prev |->
        IF prev[i].id = alertId
        THEN [prev[i] EXCEPT !.processedAction = ActionLabel(action)]
        ELSE prev[i]]

\* the effect on [alerts]: setUnreadAlerts(alerts.filter(a => !a.isRead).map(a => a.id))
UnreadEffect(as) == UnreadIds(as)

\* An effect on [isOpen] that does not look at isOpen.
AutoReadIdsAnyChange(open, as) ==
    IF Len(as) > 0 THEN UnreadIds(as) ELSE <<>>

\* the effect on [isOpen]: the ids readAlerts is called with, <<>> for no call
AutoReadIds(open, as) ==
    IF ~open /\ Len(as) > 0 THEN UnreadIds(as) ELSE <<>>

\* new Client({...}); clientRef.current = client; client.activate()
Activate(cs) == Append(cs, [state |-> "Connecting", subs |-> 0])

\* The test on the answer of a call: data.resultCode === '200' (fetches),
\* response.ok (readAlerts, handleFriendRequest).  An error skips it.
Succeeded(outcome) == outcome = "ok"

\* A loadMore that advances the cursor whatever the answer.
PageAlwaysAdvanced(prev, ok) == AdvancePage(prev)

\* loadMore: setPage runs inside if (data.resultCode === '200')
PageAfterLoadMore(prev, ok) == IF ok THEN AdvancePage(prev) ELSE prev

\* A readAlerts that marks the alerts before the server has answered ok.
ReadStateOptimistic(prev, alertIds, ok) == ApplyReadState(prev, alertIds)

\* readAlerts: setAlerts runs inside if (response.ok)
ReadStateAfter(prev, alertIds, ok) ==
    IF ok THEN ApplyReadState(prev, alertIds) ELSE prev

\* A handleFriendRequest that labels the alert whatever the answer.
ProcessedOptimistic(prev, alertId, action, ok) ==
    ApplyProcessedAction(prev, alertId, action)

\* handleFriendRequest: setAlerts runs inside if (response.ok)
ProcessedAfter(prev, alertId, action, ok) ==
    IF ok THEN ApplyProcessedAction(prev, alertId, action) ELSE prev

\* handleFriendRequest: window.dispatchEvent(new CustomEvent(
\* 'friendRequestProcessed', {detail: {requestId, action}})), inside the same if
DispatchAfter(evs, requestId, action, ok) ==
    IF ok THEN Append(evs, [requestId |-> requestId, action |-> action]) ELSE evs

\* useState<Alert | null>(null): the slot holds no toast
NoToast == <<>>

\* A toast handler that queues the toasts.
QueueToast(prev, newAlert) == Append(prev, newAlert)

\* setToast(newAlert): the slot holds newAlert and nothing else
SetToast(prev, newAlert) == <<newAlert>>

\* setToast(null)
ClearToast(prev) == NoToast

\* the toast handler: setToast comes after JSON.parse, a throw skips it
ToastAfterMessage(prev, parsed) ==
    IF parsed = <<>> THEN prev ELSE SetToast(prev, parsed[1])

\* A cleanup that forgets the client without deactivating it.
DeactivateNothing(cs, ref) == cs

\* the effect's cleanup: if (clientRef.current) clientRef.current.deactivate()
Deactivate(cs, ref) ==
    IF ref # 0 THEN [cs EXCEPT ![ref] = [state |-> "Closed", subs |-> 0]] ELSE cs

\* the guard of the session effect: if (!userInfo) return undefined
HasUser(u) == u # Null

----------------------------------------------------------------------------
\* History kept on the requests in flight: what happened to the sequence
\* between the call and its settlement, and whether the call was sent with the
\* cookie of a session (the server answers no other call with success).

\* a push was applied
NotePushMore(rs, a) == {[r EXCEPT !.pushes = <<a>> \o r.pushes] : r \in rs}
NotePushRead(rs) == {[r EXCEPT !.pushed = TRUE] : r \in rs}
\* a fetch result was applied
NoteFetchRead(rs) == {[r EXCEPT !.fetched = TRUE] : r \in rs}
\* the sequence was rewritten by something other than a push
NoteRewrite(rs) == {[r EXCEPT !.clean = FALSE] : r \in rs}

----------------------------------------------------------------------------
\* Page load.  The application shell (not part of the sources) mounts
\* AlertProvider with isLoggedIn and the cached identity of the session, if
\* there is one; the session effect runs on mount.

\* The identity the application shell has cached when the page is loaded:
\* that of the session, when there is one.
SessionAtLoad(s) == IF s THEN User ELSE Null

\* The state of AlertProvider after its first render and effects.
Boot(s) ==
    LET u == SessionAtLoad(s) IN
    [alerts |-> <<>>, hasMore |-> TRUE, page |-> 0, unreadAlerts |-> <<>>,
     toast |-> NoToast, isOpen |-> FALSE, isLoggedIn |-> s, userInfo |-> u,
     clients |-> IF HasUser(u) THEN Activate(<<>>) ELSE <<>>,
     clientRef |-> IF HasUser(u) THEN 1 ELSE 0,
     initialFetch |-> HasUser(u)]

Init ==
    \E s \in BOOLEAN :
        LET b == Boot(s) IN
        /\ alerts = b.alerts /\ hasMore = b.hasMore /\ page = b.page
        /\ unreadAlerts = b.unreadAlerts /\ isOpen = b.isOpen
        /\ isLoggedIn = b.isLoggedIn /\ userInfo = b.userInfo
        /\ clients = b.clients /\ clientRef = b.clientRef
        /\ initialFetch = b.initialFetch
        /\ moreReqs = {} /\ readReqs = {} /\ friendReqs = {}
        /\ logoutReq = FALSE
        /\ events = <<>>
        /\ nInputs = 0 /\ nPush = 0
        /\ served = {} /\ acked = {} /\ failed = {}
        /\ toast = b.toast

\* Login.handleLogin, the response being ok: setIsLoggedIn(true), then
\* window.location.href = '/' loads the page again, now with a session.
handleLogin ==
    LET b == Boot(TRUE) IN
    /\ ~isLoggedIn
    /\ alerts' = b.alerts /\ hasMore' = b.hasMore /\ page' = b.page
    /\ unreadAlerts' = b.unreadAlerts /\ isOpen' = b.isOpen
    /\ isLoggedIn' = b.isLoggedIn /\ userInfo' = b.userInfo
    /\ clients' = b.clients /\ clientRef' = b.clientRef
    /\ initialFetch' = b.initialFetch
    /\ moreReqs' = {} /\ readReqs' = {} /\ friendReqs' = {}
    /\ logoutReq' = FALSE
    /\ events' = <<>>
    /\ nInputs' = 0 /\ nPush' = 0
    /\ served' = {} /\ acked' = {} /\ failed' = {}
    /\ toast' = b.toast

\* Header.handleLogout up to its await.
handleLogout ==
    /\ isLoggedIn
    /\ ~logoutReq
    /\ logoutReq' = TRUE
    /\ UNCHANGED <<feed, isOpen, session, conn, initialFetch, moreReqs, readReqs,
                   friendReqs, events, counters, served, acked, failed, toast>>

\* The logout call settles.  Any response: setIsLoggedIn(false) and the cached
\* identity is removed; the render that follows runs the cleanup of the session
\* effect and then the effect again.  A network error: logged, nothing changes.
handleLogoutSettle ==
    /\ logoutReq
    /\ logoutReq' = FALSE
    /\ \E outcome \in {"response", "throw"} :
        IF outcome = "response"
        THEN /\ isLoggedIn' = FALSE
             /\ userInfo' = Null
             /\ LET closed == Deactivate(clients, clientRef) IN
                IF HasUser(userInfo')
                THEN /\ clients' = Activate(closed)
                     /\ clientRef' = Len(clients')
                     /\ initialFetch' = TRUE
                ELSE /\ clients' = closed
                     /\ clientRef' = 0
                     /\ UNCHANGED initialFetch
        ELSE /\ UNCHANGED <<session, conn, initialFetch>>
    /\ UNCHANGED <<feed, isOpen, moreReqs, readReqs, friendReqs, events, counters, served, acked, failed, toast>>

----------------------------------------------------------------------------
\* Feed Store: the initial fetch and loadMore.

\* fetchInitialAlerts settles.  resultCode "200": the content replaces the
\* sequence.  Any other resultCode, a network error or an unparsable body:
\* nothing changes.
fetchInitialAlertsSettle ==
    /\ initialFetch
    /\ initialFetch' = FALSE
    /\ \/ \E pg \in Pages :
            LET content == ServerPage(pg[1], pg[2], pg[3], <<"init">>) IN
            /\ alerts' = ReplaceAll(alerts, content)
            /\ hasMore' = HasMoreAfterInitial(Len(content))
            /\ page' = 0
            /\ unreadAlerts' = UnreadEffect(alerts')
            /\ moreReqs' = NoteRewrite(moreReqs)
            /\ readReqs' = NoteFetchRead(readReqs)
            /\ UNCHANGED failed
       \/ /\ UNCHANGED <<feed, moreReqs, readReqs>>
          /\ failed' = failed \cup {<<"initial", 0>>}
    /\ UNCHANGED <<isOpen, session, conn, friendReqs, logoutReq, events, counters, served, acked, toast>>

\* loadMore up to its await: the query for page + 1 is sent.
loadMore ==
    /\ nInputs < MaxInputs
    /\ nInputs' = nInputs + 1
    /\ moreReqs' = moreReqs \cup
            {[n |-> nInputs', page |-> RequestedPage(page), after |-> nPush,
              authed |-> isLoggedIn, hasMore |-> hasMore, snap |-> alerts,
              pushes |-> <<>>, clean |-> TRUE]}
    /\ UNCHANGED <<feed, isOpen, session, conn, initialFetch, readReqs, friendReqs,
                   logoutReq, events, nPush, served, acked, failed, toast>>

\* A loadMore query settles.  resultCode "200": hasMore, the sequence and the
\* cursor are updated.  Anything else: nothing changes.
loadMoreSettle ==
    \E r \in moreReqs, outcome \in Outcomes :
        LET ok == Succeeded(outcome) IN
        /\ ok => r.authed
        /\ moreReqs' = NoteRewrite(moreReqs \ {r})
        /\ page' = PageAfterLoadMore(page, ok)
        /\ IF ok
           THEN \E pg \in Pages :
                LET newAlerts == ServerPage(pg[1], pg[2], pg[3], <<"more", r.n, r.after>>) IN
                /\ hasMore' = HasMoreAfterLoadMore(hasMore, Len(newAlerts))
                /\ alerts' = AppendPage(alerts, newAlerts)
                /\ unreadAlerts' = UnreadEffect(alerts')
                /\ readReqs' = NoteFetchRead(readReqs)
                /\ served' = served \cup {[n |-> r.n, page |-> r.page, items |-> newAlerts,
                                            pushes |-> r.pushes, clean |-> r.clean]}
                /\ UNCHANGED failed
           ELSE /\ UNCHANGED <<alerts, hasMore, unreadAlerts, readReqs, served>>
                /\ failed' = failed \cup {<<"more", r.n>>}
        /\ UNCHANGED <<isOpen, session, conn, initialFetch, friendReqs, logoutReq,
                       events, counters, acked, toast>>

----------------------------------------------------------------------------
\* Read-state synchronisation.

ReadRequest(n, ids, auto) ==
    [n |-> n, alertIds |-> ids, auto |-> auto, authed |-> isLoggedIn,
     pushed |-> FALSE, fetched |-> FALSE]

\* The feed view opens or closes; the effect on [isOpen] runs with the new
\* value and may call readAlerts.
setIsOpen ==
    LET ids == AutoReadIds(~isOpen, alerts) IN
    /\ ids = <<>> \/ nInputs < MaxInputs
    /\ isOpen' = ~isOpen
    /\ IF ids # <<>>
       THEN /\ nInputs' = nInputs + 1
            /\ readReqs' = readReqs \cup {ReadRequest(nInputs', ids, TRUE)}
       ELSE UNCHANGED <<nInputs, readReqs>>
    /\ UNCHANGED <<feed, session, conn, initialFetch, moreReqs, friendReqs, logoutReq,
                   events, nPush, served, acked, failed, toast>>

\* readAlerts called by a consumer of the context, up to its await.
readAlerts ==
    /\ nInputs < MaxInputs
    /\ nInputs' = nInputs + 1
    /\ \E ids \in ManualReads :
        /\ readReqs' = readReqs \cup {ReadRequest(nInputs', ids, FALSE)}
    /\ UNCHANGED <<feed, isOpen, session, conn, initialFetch, moreReqs, friendReqs,
                   logoutReq, events, nPush, served, acked, failed, toast>>

\* The acknowledgement settles: response.ok, or a non-2xx response or an error.
readAlertsSettle ==
    \E r \in readReqs, outcome \in Outcomes :
        LET ok == Succeeded(outcome) IN
        /\ ok => r.authed
        /\ readReqs' = readReqs \ {r}
        /\ alerts' = ReadStateAfter(alerts, r.alertIds, ok)
        /\ IF ok
           THEN /\ unreadAlerts' = UnreadEffect(alerts')
                /\ moreReqs' = NoteRewrite(moreReqs)
                /\ acked' = acked \cup {[n |-> r.n, auto |-> r.auto]}
                /\ UNCHANGED failed
           ELSE /\ UNCHANGED <<unreadAlerts, moreReqs, acked>>
                /\ failed' = failed \cup {<<"read", r.n>>}
        /\ UNCHANGED <<hasMore, page, isOpen, session, conn, initialFetch, friendReqs,
                       logoutReq, events, counters, served, toast>>

----------------------------------------------------------------------------
\* Action relay.

\* handleFriendRequest up to its await.
handleFriendRequest ==
    /\ nInputs < MaxInputs
    /\ nInputs' = nInputs + 1
    /\ \E requestId \in RequestIds, alertId \in FriendAlertIds, action \in {"accept", "reject"} :
        /\ friendReqs' = friendReqs \cup
                {[n |-> nInputs', requestId |-> requestId, alertId |-> alertId,
                  action |-> action, authed |-> isLoggedIn]}
    /\ UNCHANGED <<feed, isOpen, session, conn, initialFetch, moreReqs, readReqs,
                   logoutReq, events, nPush, served, acked, failed, toast>>

\* The accept / reject call settles: response.ok, or anything else.
handleFriendRequestSettle ==
    \E r \in friendReqs, outcome \in Outcomes :
        LET ok == Succeeded(outcome) IN
        /\ ok => r.authed
        /\ friendReqs' = friendReqs \ {r}
        /\ alerts' = ProcessedAfter(alerts, r.alertId, r.action, ok)
        /\ events' = DispatchAfter(events, r.requestId, r.action, ok)
        /\ IF ok
           THEN /\ unreadAlerts' = UnreadEffect(alerts')
                /\ moreReqs' = NoteRewrite(moreReqs)
                /\ UNCHANGED failed
           ELSE /\ UNCHANGED <<unreadAlerts, moreReqs>>
                /\ failed' = failed \cup {<<"friend", r.n>>}
        /\ UNCHANGED <<hasMore, page, isOpen, session, conn, initialFetch, readReqs,
                       logoutReq, counters, served, acked, toast>>

----------------------------------------------------------------------------
\* Connection: the STOMP client of the session effect.

\* The handshake succeeds; onConnect subscribes to the two queues.
onConnect ==
    \E c \in DOMAIN clients :
        /\ clients[c].state = "Connecting"
        /\ clients' = [clients EXCEPT ![c] = [state |-> "Connected", subs |-> 2]]
        /\ UNCHANGED <<feed, isOpen, session, clientRef, initialFetch, moreReqs, readReqs,
                       friendReqs, logoutReq, events, counters, served, acked, failed, toast>>

\* The transport fails or the broker closes the connection (after an ERROR
\* frame, which onStompError only logs); a handshake may fail as well.
onDisconnect ==
    \E c \in DOMAIN clients :
        /\ clients[c].state \in {"Connecting", "Connected"}
        /\ clients' = [clients EXCEPT ![c] = [state |-> "Disconnected", subs |-> 0]]
        /\ UNCHANGED <<feed, isOpen, session, clientRef, initialFetch, moreReqs, readReqs,
                       friendReqs, logoutReq, events, counters, served, acked, failed, toast>>

\* reconnectDelay has elapsed on an active client.
reconnect ==
    \E c \in DOMAIN clients :
        /\ clients[c].state = "Disconnected"
        /\ clients' = [clients EXCEPT ![c] = [state |-> "Connecting", subs |-> 0]]
        /\ UNCHANGED <<feed, isOpen, session, clientRef, initialFetch, moreReqs, readReqs,
                       friendReqs, logoutReq, events, counters, served, acked, failed, toast>>

\* A message arrives on /user/{id}/queue/alerts.  A body that JSON.parse
\* rejects makes the handler throw at its first statement; the STOMP client
\* logs the exception of a frame handler and goes on.
onAlertMessage ==
    /\ nInputs < MaxInputs
    /\ nInputs' = nInputs + 1
    /\ \E c \in DOMAIN clients : clients[c].state = "Connected" /\ clients[c].subs > 0
    /\ \E body \in Bodies :
        LET parsed == JsonParse(body, MkAlert(PushId(nPush + 1), FALSE, <<"push", nPush + 1>>)) IN
        /\ alerts' = AlertsAfterMessage(alerts, parsed)
        /\ IF parsed # <<>>
           THEN /\ nPush' = nPush + 1
                /\ unreadAlerts' = UnreadEffect(alerts')
                /\ moreReqs' = NotePushMore(moreReqs, parsed[1])
                /\ readReqs' = NotePushRead(readReqs)
                /\ UNCHANGED failed
           ELSE /\ UNCHANGED <<nPush, unreadAlerts, moreReqs, readReqs>>
                /\ failed' = failed \cup {<<"alerts", nInputs'>>}
    /\ UNCHANGED <<hasMore, page, isOpen, session, conn, initialFetch, friendReqs,
                   logoutReq, events, served, acked, toast>>

\* A message arrives on /user/{id}/queue/toast-alerts: setToast(newAlert),
\* unless JSON.parse throws.
onToastMessage ==
    /\ nInputs < MaxInputs
    /\ nInputs' = nInputs + 1
    /\ \E c \in DOMAIN clients : clients[c].state = "Connected" /\ clients[c].subs > 0
    /\ \E body \in Bodies :
        LET parsed == JsonParse(body, MkAlert(PushId(nInputs'), FALSE, <<"toast", nInputs'>>)) IN
        /\ toast' = ToastAfterMessage(toast, parsed)
        /\ failed' = IF parsed # <<>> THEN failed ELSE failed \cup {<<"toast-alerts", nInputs'>>}
    /\ UNCHANGED <<feed, isOpen, session, conn, initialFetch, moreReqs, readReqs,
                   friendReqs, logoutReq, events, nPush, served, acked>>

\* ToastAlert calls onClose: setToast(null).
onClose ==
    /\ toast # NoToast
    /\ toast' = ClearToast(toast)
    /\ UNCHANGED <<feed, isOpen, session, conn, initialFetch, moreReqs, readReqs,
                   friendReqs, logoutReq, events, counters, served, acked, failed>>

Next ==
    \/ handleLogin
    \/ handleLogout
    \/ handleLogoutSettle
    \/ fetchInitialAlertsSettle
    \/ loadMore
    \/ loadMoreSettle
    \/ setIsOpen
    \/ readAlerts
    \/ readAlertsSettle
    \/ handleFriendRequest
    \/ handleFriendRequestSettle
    \/ onConnect
    \/ onDisconnect
    \/ reconnect
    \/ onAlertMessage
    \/ onToastMessage
    \/ onClose

Spec == Init /\ [][Next]_vars

\* The session and its connection: the steps that start or end a session, move
\* the client or go through it.  No other step reads or writes clients,
\* clientRef, isLoggedIn or userInfo.
ConnNext ==
    \/ handleLogin
    \/ handleLogout
    \/ handleLogoutSettle
    \/ fetchInitialAlertsSettle
    \/ onConnect
    \/ onDisconnect
    \/ reconnect
    \/ onAlertMessage
    \/ onToastMessage
    \/ onClose

\* reconnectDelay: 5000 - the timer of an active client does fire.
LiveSpec == Init /\ [][ConnNext]_vars /\ WF_vars(reconnect)

----------------------------------------------------------------------------
\* Steps, recognised from the two states of a transition.

\* the page is loaded again by handleLogin
LoginStep == ~isLoggedIn /\ isLoggedIn'

\* the result of the initial fetch is applied
InitialApplied == initialFetch /\ ~initialFetch' /\ alerts' # alerts

\* the result of the loadMore query r is applied; its page is s.items
MoreApplied(r, s) == r \in moreReqs /\ s \in served' \ served /\ s.n = r.n

\* handleFriendRequest r succeeded
FriendApplied(r) ==
    r \in friendReqs /\ r \notin friendReqs' /\ Len(events') = Len(events) + 1

\* the feed view goes from open to closed
CloseStep == isOpen /\ ~isOpen' /\ ~LoginStep

\* the automatic readAlerts calls made by this step
NewAutoReads == {r \in readReqs' : r.auto /\ \A q \in readReqs : q.n # r.n}

\* the acknowledgement of readAlerts call r succeeded
ReadApplied(r) == r \in readReqs /\ \E a \in acked' \ acked : a.n = r.n

AllRead(as) == \A i \in DOMAIN as : as[i].isRead

IsPush(a) == a.org[1] = "push"
IsMore(a) == a.org[1] = "more"

----------------------------------------------------------------------------
\* C1.  The sequence contains each alert id at most once, whatever the
\* interleaving of the initial fetch, pushes and loadMore and whatever pages
\* the server returns.
C1_NoDuplicateIds ==
    \A i, j \in DOMAIN alerts : alerts[i].id = alerts[j].id => i = j

\* C2.  Every pushed alert in the sequence stands before every alert appended
\* by a loadMore whose query was sent after that push, and the alerts appended
\* by one loadMore stand together, in the order the server returned them.
C2_OrderInvariant ==
    /\ \A i, j \in DOMAIN alerts :
          (IsPush(alerts[i]) /\ IsMore(alerts[j]) /\ alerts[i].org[2] <= alerts[j].org[3])
             => i < j
    /\ \A s \in served :
          LET pos == {i \in DOMAIN alerts : IsMore(alerts[i]) /\ alerts[i].org[2] = s.n} IN
          pos = {} \/ \E k \in 0..Len(alerts) :
                          /\ pos = (k + 1)..(k + Len(s.items))
                          /\ \A m \in 1..Len(s.items) : alerts[k + m].id = s.items[m].id

\* A push was applied, a loadMore was called after it, and both are in the sequence.
C2_Witness ==
    \E i, j \in DOMAIN alerts :
        IsPush(alerts[i]) /\ IsMore(alerts[j]) /\ alerts[i].org[2] <= alerts[j].org[3]

\* C3.  Once an alert's processedAction is set, a later successful
\* handleFriendRequest for the same alertId does not change it.
C3_FirstWriteWins ==
    [][\A r \in friendReqs :
          FriendApplied(r) =>
             \A i \in DOMAIN alerts :
                (alerts[i].id = r.alertId /\ alerts[i].processedAction # None)
                   => alerts'[i].processedAction = alerts[i].processedAction]_vars

\* C4.  loadMore called while hasMore is false sends no query: every query in
\* flight was sent while hasMore was true.
C4_NoQueryWhenExhausted ==
    \A r \in moreReqs : r.hasMore

\* C5.  After every fetch result that is applied, hasMore is (number of alerts
\* returned = 10), and once false hasMore stays false until the page is loaded
\* again.
C5_HasMoreTracksCount ==
    [][/\ InitialApplied => (hasMore' = (Len(alerts') = PageSize))
       /\ \A r \in moreReqs : \A s \in served' \ served :
             MoreApplied(r, s) => (hasMore' = (Len(s.items) = PageSize))
       /\ (~hasMore /\ ~LoginStep) => ~hasMore']_vars

\* C6.  An alert pushed while the initial fetch is in flight is still in the
\* sequence after the result of the fetch is applied.
C6_InitialKeepsPushes ==
    [][InitialApplied =>
          \A i \in DOMAIN alerts :
             IsPush(alerts[i]) => \E j \in DOMAIN alerts' : alerts'[j] = alerts[i]]_vars

C8_DestroyedOnLogout ==
    [][(isLoggedIn /\ ~isLoggedIn') => (alerts' = <<>> /\ page' = 0 /\ hasMore')]_vars

\* C9.  At most one client is active; while a session is active exactly one
\* is, and clientRef holds it; while no session is active none is.
ActiveClients == {c \in DOMAIN clients : clients[c].state # "Closed"}

AutoReadOnClose ==
    /\ (CloseStep /\ unreadAlerts # <<>>)
          => (Cardinality(NewAutoReads) = 1
              /\ \A r \in NewAutoReads : r.alertIds = UnreadIds(alerts))
    /\ NewAutoReads # {} => (CloseStep /\ unreadAlerts # <<>>)

\* C10 as stated: and when that acknowledgement succeeds with no push in
\* between, every alert is read and the unread set is empty.
C10_AutoRead ==
    [][/\ AutoReadOnClose
       /\ \A r \in readReqs :
             (ReadApplied(r) /\ r.auto /\ ~r.pushed)
                => (AllRead(alerts') /\ unreadAlerts' = <<>>)]_vars

\* C10 as amended: with no push and no fetch result in between.
C10_AutoReadNoFetch ==
    [][/\ AutoReadOnClose
       /\ \A r \in readReqs :
             (ReadApplied(r) /\ r.auto /\ ~r.pushed /\ ~r.fetched)
                => (AllRead(alerts') /\ unreadAlerts' = <<>>)]_vars

\* An automatic acknowledgement succeeded, nothing having arrived in between.
C10_Witness ==
    /\ \E a \in acked : a.auto
    /\ readReqs = {}
    /\ Len(alerts) > 1
    /\ AllRead(alerts)
    /\ unreadAlerts = <<>>
    /\ ~isOpen

----------------------------------------------------------------------------
\* Settlements, recognised from the two states of a transition.

\* the call of this kind with number n has settled in this step
Settles(kind, n) ==
    /\ ~LoginStep
    /\ \/ kind = "read" /\ (\E r \in readReqs : r.n = n) /\ (\A q \in readReqs' : q.n # n)
       \/ kind = "friend" /\ (\E r \in friendReqs : r.n = n) /\ (\A q \in friendReqs' : q.n # n)
       \/ kind = "more" /\ (\E r \in moreReqs : r.n = n) /\ (\A q \in moreReqs' : q.n # n)
       \/ kind = "initial" /\ n = 0 /\ initialFetch /\ ~initialFetch'

\* ... and it has failed
Fails(kind, n) == Settles(kind, n) /\ <<kind, n>> \in failed' \ failed

\* ... and it has succeeded
Succeeds(kind, n) == Settles(kind, n) /\ <<kind, n>> \notin failed'

\* the alerts of the sequence as that have this origin
OfOrigin(as, org) == SelectSeq(as, LAMBDA a : a.org = org)

----------------------------------------------------------------------------
\* C11  Idempotent read.  A successful readAlerts(ids) sets isRead on the
\* entries whose id is in ids and changes no other entry (an id that is not in
\* the sequence is ignored); the unread ids are those of the entries left
\* unread; applying the same acknowledgement once more changes nothing.
C11_IdempotentRead ==
    [][\A r \in readReqs :
        Succeeds("read", r.n) =>
            /\ DOMAIN alerts' = DOMAIN alerts
            /\ \A i \in DOMAIN alerts :
                    alerts'[i] = IF Includes(r.alertIds, alerts[i].id)
                                 THEN [alerts[i] EXCEPT !.isRead = TRUE]
                                 ELSE alerts[i]
            /\ unreadAlerts' = UnreadIds(alerts')
            /\ ApplyReadState(alerts', r.alertIds) = alerts'
            /\ UnreadEffect(ApplyReadState(alerts', r.alertIds)) = unreadAlerts']_vars

\* Two calls readAlerts([10, 99]) were acknowledged; of the page served with
\* ids 1..10 unread, 10 is read and 1 is not; there is no alert 99.
C11_Witness ==
    /\ Cardinality({a \in acked : ~a.auto}) = 2
    /\ \E i, j \in DOMAIN alerts :
            /\ alerts[i].id = 10 /\ alerts[i].isRead
            /\ alerts[j].id = 1 /\ ~alerts[j].isRead
            /\ alerts[i].org = alerts[j].org
    /\ ~Includes(Ids(alerts), 99)

\* C12  A readAlerts call that fails (non-2xx response or error) changes no
\* isRead flag and leaves the unread ids as they were.
C12_ReadFailureNotCommitted ==
    [][\A r \in readReqs :
        Fails("read", r.n) => alerts' = alerts /\ unreadAlerts' = unreadAlerts]_vars

\* A readAlerts call has failed while alerts it names were unread, and they
\* still are.
C12_Witness ==
    /\ \E f \in failed : f[1] = "read"
    /\ acked = {}
    /\ Includes(unreadAlerts, 10)

\* C13  A handleFriendRequest that succeeds gives the alerts with the given
\* alertId the label of the action, modifies no other alert, and dispatches
\* exactly one friendRequestProcessed event, carrying {requestId, action}.
C13_FriendRequestSuccess ==
    [][\A r \in friendReqs :
        Succeeds("friend", r.n) =>
            /\ DOMAIN alerts' = DOMAIN alerts
            /\ \A i \in DOMAIN alerts :
                    alerts'[i] = IF alerts[i].id = r.alertId
                                 THEN [alerts[i] EXCEPT !.processedAction =
                                          IF r.action = "accept" THEN Accepted ELSE Rejected]
                                 ELSE alerts[i]
            /\ events' = events \o <<[requestId |-> r.requestId, action |-> r.action]>>]_vars

\* An event was dispatched; alert 10 carries a label and another alert none.
C13_Witness ==
    /\ Len(events) = 1
    /\ \E i, j \in DOMAIN alerts :
            /\ alerts[i].id = 10 /\ alerts[i].processedAction # None
            /\ alerts[j].id # 10 /\ alerts[j].processedAction = None

\* C14  A handleFriendRequest that fails mutates no alert and dispatches no
\* event.
C14_FriendRequestFailure ==
    [][\A r \in friendReqs :
        Fails("friend", r.n) => alerts' = alerts /\ events' = events]_vars

\* A handleFriendRequest has failed; alert 10 is in the sequence without a
\* label and no event was dispatched.
C14_Witness ==
    /\ \E f \in failed : f[1] = "friend"
    /\ events = <<>>
    /\ \E i \in DOMAIN alerts : alerts[i].id = 10 /\ alerts[i].processedAction = None

\* a toast message is received in this step: the one input that is neither
\* a push nor a call
ToastReceived ==
    nInputs' = nInputs + 1 /\ UNCHANGED <<nPush, moreReqs, readReqs, friendReqs, failed>>

\* the toast on display is dismissed in this step
ToastDismissed == toast # NoToast /\ toast' = NoToast /\ ~LoginStep

\* C15  Toast slot.  At most one toast is on display; a toast received takes
\* the slot, replacing the one on display; a dismissal empties the slot; both
\* leave the sequence, the cursor, hasMore and the unread ids unchanged.
C15_ToastSlot ==
    /\ [](Len(toast) <= 1)
    /\ [][(ToastReceived =>
                /\ Len(toast') = 1 /\ toast'[1].org = <<"toast", nInputs'>>
                /\ feed' = feed)
           /\ (ToastDismissed => feed' = feed)]_vars

\* The second input of the page is on display as a toast and the first was a
\* toast too; the sequence is not empty.
C15_Witness ==
    /\ Len(toast) = 1 /\ toast[1].org = <<"toast", 2>>
    /\ nPush = 0 /\ moreReqs = {} /\ readReqs = {} /\ friendReqs = {}
    /\ failed = {} /\ served = {} /\ acked = {} /\ events = <<>>
    /\ alerts # <<>>

\* a message of the alerts queue is recorded in this step
PushReceived == nPush' = nPush + 1

StoreKept == alerts' = alerts /\ page' = page /\ hasMore' = hasMore

\* C17  A fetch that fails, the initial one or a loadMore (network error,
\* unparsable body, resultCode other than "200"), leaves the sequence, the
\* cursor and hasMore unchanged; each successful loadMore advances the cursor
\* by exactly one and nothing else advances it.
C17_FetchFailure ==
    [][/\ Fails("initial", 0) => StoreKept
       /\ \A r \in moreReqs :
            /\ Fails("more", r.n) => StoreKept
            /\ Succeeds("more", r.n) => page' = page + 1
       /\ page' > page => \E r \in moreReqs : Succeeds("more", r.n)]_vars

\* The initial fetch and a loadMore have failed, another loadMore has
\* succeeded, and the cursor is at 1.
C17_Witness ==
    /\ <<"initial", 0>> \in failed
    /\ \E f \in failed : f[1] = "more"
    /\ served # {} /\ alerts # <<>>
    /\ page = 1

\* the pages whose results are in the sequence, by the loadMore calls served
AppendedPages ==
    {s.page : s \in {t \in served :
                        \E i \in DOMAIN alerts : IsMore(alerts[i]) /\ alerts[i].org[2] = t.n}}

\* C18  Overlapping loadMore calls.  No page is requested twice, none is
\* appended twice, none is skipped: once the calls have resolved, the cursor is
\* the highest page appended and the pages appended are 1 .. cursor, each by
\* one call.
C18_NoOverlapCorruption ==
    /\ \A r1, r2 \in {r \in moreReqs : r.authed} : r1.page = r2.page => r1.n = r2.n
    /\ \A s1, s2 \in served : s1.page = s2.page => s1.n = s2.n
    /\ (moreReqs = {} /\ AppendedPages # {}) => AppendedPages = 1..page

\* C19  No result of a fetch is applied after the session has ended: a fetch
\* that settles while no user is logged in leaves the sequence, the cursor and
\* hasMore as they were.
C19_DiscardAfterTeardown ==
    [][(~isLoggedIn /\ (Settles("initial", 0) \/ \E r \in moreReqs : Settles("more", r.n)))
          => StoreKept]_vars

\* C20  The unread ids are derived from the sequence: they are the ids of the
\* alerts whose isRead is false, and the unread count exposed, unreadAlerts.length,
\* is the number of those ids.
C20_UnreadDerived ==
    LET unread == {alerts[i].id : i \in {j \in DOMAIN alerts : ~alerts[j].isRead}} IN
    /\ {unreadAlerts[i] : i \in DOMAIN unreadAlerts} = unread
    /\ Len(unreadAlerts) = Cardinality(unread)

\* the queues of the broker, as the failures to decode a message are filed
Queues == {"alerts", "toast-alerts"}

\* a message that cannot be decoded is received in this step
DecodeFails == \E f \in failed' \ failed : f[1] \in Queues

\* a message could not be decoded earlier on this page
DecodeFailed == \E f \in failed : f[1] \in Queues

\* C21  A message of the alerts queue or of the toast queue whose body cannot
\* be decoded is dropped: the Feed Store and the toast slot are unchanged and the
\* connection stays Connected with its two subscriptions; the well-formed
\* messages that come later are applied.
C21_DecodeFailure ==
    [][/\ DecodeFails =>
            /\ feed' = feed /\ toast' = toast
            /\ conn' = conn
            /\ \E c \in DOMAIN clients' :
                    clients'[c].state = "Connected" /\ clients'[c].subs = 2
       /\ (DecodeFailed /\ PushReceived) =>
            (alerts' = <<MkAlert(PushId(nPush'), FALSE, <<"push", nPush'>>)>> \o alerts)
       /\ (DecodeFailed /\ ToastReceived) =>
            (toast' = <<MkAlert(PushId(nInputs'), FALSE, <<"toast", nInputs'>>)>>)]_vars

\* The first message of the page, on the alerts queue, could not be decoded;
\* the second is the alert that leads the sequence, behind it the initial page.
C21_Witness ==
    /\ <<"alerts", 1>> \in failed
    /\ nInputs = 2
    /\ Len(alerts) > 1 /\ alerts[1].org = <<"push", 1>> /\ alerts[2].org = <<"init">>

\* the client of the session is in this state
SessionClientIs(st) == clientRef # 0 /\ clients[clientRef].state = st

\* the session ends in this step and the cleanup of the session effect runs
Teardown == isLoggedIn /\ ~isLoggedIn'

\* C22  Reconnect lifecycle.  While a session is active, its client, once
\* Disconnected, comes back to Connecting; a client is Connecting, Connected,
\* Disconnected or Closed and only the teardown closes it; a client holds its
\* two subscriptions exactly while it is Connected.  The teardown leaves the
\* client Closed; a Closed client stays as it is; a second teardown changes
\* nothing.
C22_ReconnectLifecycle ==
    /\ SessionClientIs("Disconnected") ~> (SessionClientIs("Connecting") \/ ~isLoggedIn)
    /\ [](\A c \in DOMAIN clients :
            /\ clients[c].state \in {"Connecting", "Connected", "Disconnected", "Closed"}
            /\ clients[c].subs = IF clients[c].state = "Connected" THEN 2 ELSE 0)
    /\ [][~LoginStep =>
            \A c \in DOMAIN clients :
                /\ clients[c].state = "Closed" => clients'[c] = clients[c]
                /\ (clients[c].state # "Closed" /\ clients'[c].state = "Closed") => Teardown]_vars
    /\ [][Teardown =>
            /\ clients'[clientRef].state = "Closed"
            /\ clientRef' = 0
            /\ Deactivate(clients', clientRef') = clients']_vars

\* The client of the session, which has received a message, is Disconnected
\* and holds no subscription.
C22_Witness ==
    /\ isLoggedIn /\ SessionClientIs("Disconnected")
    /\ clients[clientRef].subs = 0
    /\ nPush > 0

====
